---- MODULE Spec2Model ----
(***************************************************************************)
(* Contributor record validation (validate script + contributor schema).   *)
(*                                                                         *)
(* Two specifications share this module:                                   *)
(*   Spec     - the runner / watch controller: passes started by           *)
(*              runValidation, their suspension points (pacing delay,      *)
(*              schema load, avatar access, tips schema load), the shared  *)
(*              currentValidationController token, the console, the        *)
(*              process exit status.                                       *)
(*   SpecFile - validateTeamFile as a pure function of the parsed record   *)
(*              and the avatar's existence: the zod issues the schema      *)
(*              produces and what formatValidationError makes of each.     *)
(*                                                                         *)
(* Strings are sequences of tokens; a path joined with "." is the          *)
(* sequence of its segments with "." tokens between them.                  *)
(***************************************************************************)
EXTENDS Integers, Sequences, FiniteSets, TLC

\* ------------------------------------------------------------------ bounds
\* Most keys a record's "roles" mapping holds.
MaxRoleKeys == 2
\* Passes started in one run (the eager pass plus change events).
MaxPasses == 2

\* ------------------------------------------------------- project registry
PROJECTS ==
  <<"Volume 0 Kickstarter", "Volume 0", "Website", "Volume 0 Issue 1",
    "Fandom Cookies">>

VOLUME_0_ISSUE_1_ROLES ==
  <<"Technical Writer", "Scenario Writer", "Beta Reading Coordinator",
    "Beta Reader", "Proofreader", "Artist", "Tasks Coordinator",
    "Communications", "Character Designer", "Additional Coding",
    "Data Collection & Entry">>

PROJECT_ROLES == [p \in {"Volume 0 Issue 1"} |-> VOLUME_0_ISSUE_1_ROLES]

Range(s) == {s[i] : i \in 1..Len(s)}

RECURSIVE Flatten(_)
Flatten(ss) == IF ss = <<>> THEN <<>> ELSE Head(ss) \o Flatten(Tail(ss))

\* ------------------------------------------------------------ record data
\* Keys a record may use under "roles": an unrestricted project, the
\* restricted project, and two names the registry does not know.
RoleKeys == {"Website", "Volume 0 Issue 1", "Foo", "Bar"}

\* Role names a record may use: an allowed one, the same in another case,
\* and one no list holds.
RoleNames == {"Artist", "artist", "Wizard"}

\* A role entry as parsed from YAML: a bare string, a {role, details}
\* mapping, or a scalar that is neither (a number).
RoleEntries ==
  [kind : {"str", "obj"}, role : RoleNames] \cup {[kind |-> "num", role |-> "42"]}

SeqsUpTo(S, n) == UNION {[1..k -> S] : k \in 0..n}

NoDup(s) == \A i, j \in 1..Len(s) : i /= j => s[i] /= s[j]

\* The entry lists a key of "roles" may hold: none, any one entry, and a
\* good entry followed by a bad one.
EntryLists ==
  {<<>>} \cup {<<e>> : e \in RoleEntries}
  \cup {<<[kind |-> "str", role |-> "Artist"], [kind |-> "num", role |-> "42"]>>}

\* The "roles" mapping in key order: a sequence of (key, entries).
RolesValues ==
  {r \in SeqsUpTo([key : RoleKeys, entries : EntryLists], MaxRoleKeys) :
     NoDup([i \in 1..Len(r) |-> r[i].key])}

\* What readFileSync + parse give for a file: an error (kind "unreadable"),
\* a non-mapping document (kind "null"), or a mapping.
RecordData ==
  [kind : {"object"}, name : BOOLEAN, avatar : BOOLEAN, roles : RolesValues]
  \cup
  [kind : {"unreadable", "null"}, name : {FALSE}, avatar : {FALSE},
   roles : {<<>>}]

IdxStr(i) == <<"0", "1", "2", "3", "4", "5">>[i + 1]

\* path.join(".") and path.split(".")
RECURSIVE Join(_)
Join(p) ==
  IF Len(p) = 0 THEN <<>>
  ELSE IF Len(p) = 1 THEN <<p[1]>>
  ELSE <<p[1], ".">> \o Join(Tail(p))

RECURSIVE Split(_)
Split(s) ==
  IF \A i \in 1..Len(s) : s[i] /= "." THEN <<s>>
  ELSE LET k == CHOOSE i \in 1..Len(s) :
                  s[i] = "." /\ \A j \in 1..(i - 1) : s[j] /= "."
       IN <<SubSeq(s, 1, k - 1)>> \o Split(SubSeq(s, k + 1, Len(s)))

\* s.includes("roles.")
IncludesRolesDot(s) ==
  \E i \in 1..(Len(s) - 1) : s[i] = "roles" /\ s[i + 1] = "."

\* ------------------------------------------------------------- the schema
\* An issue of the validation library: code, field path, message, and, for
\* unrecognized_keys, the keys; for invalid_union, each option's issues.
Issue(code, path, message, keys, unionErrors) ==
  [code |-> code, path |-> path, message |-> message, keys |-> keys,
   unionErrors |-> unionErrors]

\* roleType applied to a value: z.enum(PROJECT_ROLES[project]) for a
\* restricted project (exact, case-sensitive membership), z.string()
\* otherwise.  The result is the issues it adds.
RoleType(project, isString, val) ==
  IF project \in DOMAIN PROJECT_ROLES
  THEN IF ~isString
       THEN <<[code |-> "invalid_type", received |-> "nonstring"]>>
       ELSE IF val \in Range(PROJECT_ROLES[project])
            THEN <<>>
            ELSE <<[code |-> "invalid_enum_value", received |-> val]>>
  ELSE IF isString
       THEN <<>>
       ELSE <<[code |-> "invalid_type", received |-> "nonstring"]>>

\* Role(roleType): z.union([roleType, z.object({role: roleType, details})]).
\* Gives each option's issues; the union accepts when one option has none.
Role(project, entry) ==
  << RoleType(project, entry.kind = "str", entry.role),
     IF entry.kind = "obj"
     THEN RoleType(project, TRUE, entry.role)
     ELSE <<[code |-> "invalid_type", received |-> "nonobject"]>> >>

RoleAccepts(project, entry) ==
  \E i \in 1..2 : Role(project, entry)[i] = <<>>

\* The value under a project's key, .default([]) when the key is absent.
EntriesOf(roles, project) ==
  IF \E i \in 1..Len(roles) : roles[i].key = project
  THEN roles[CHOOSE i \in 1..Len(roles) : roles[i].key = project].entries
  ELSE <<>>

\* The strict object's extra keys, in the record's key order.
ExtraKeys(roles) ==
  LET keys == [i \in 1..Len(roles) |-> roles[i].key]
  IN SelectSeq(keys, LAMBDA k : k \notin Range(PROJECTS))

\* Roles: z.object({project: Role(...).array().default([])}).strict().
\* Under safeParseAsync the unrecognized_keys issue is added while the
\* object is walked, the union issues when the entries' parses settle, in
\* registry order then entry order.
RolesUnionIssues(roles) ==
  Flatten([pi \in 1..Len(PROJECTS) |->
    LET project == PROJECTS[pi]
        es == EntriesOf(roles, project)
    IN Flatten([ei \in 1..Len(es) |->
         IF RoleAccepts(project, es[ei])
         THEN <<>>
         ELSE <<Issue("invalid_union", <<"roles", project, IdxStr(ei - 1)>>,
                      <<"Invalid input">>, <<>>, Role(project, es[ei]))>>])])

RolesKeyIssues(roles) ==
  IF ExtraKeys(roles) = <<>>
  THEN <<>>
  ELSE <<Issue("unrecognized_keys", <<"roles">>,
               <<"Unrecognized key(s) in object: ">> \o ExtraKeys(roles),
               ExtraKeys(roles), <<>>)>>

\* path.resolve(path.dirname(filePath), contributor.avatar), relative to
\* the working directory.
AvatarPath(filePath) == <<"contributors/", "avatar-of-", filePath>>

\* Contributor.superRefine(avatar check).safeParseAsync(data).  A missing
\* or mistyped field, or a rejected union, aborts the parse and the
\* refinement is not run; an extra key under "roles" only marks it dirty.
SafeParseAsync(data, avatarExists, filePath) ==
  IF data.kind = "null"
  THEN [success |-> FALSE,
        issues |-> <<Issue("invalid_type", <<>>,
                           <<"Expected object, received null">>, <<>>, <<>>)>>]
  ELSE
    LET nameIssues ==
          IF data.name THEN <<>>
          ELSE <<Issue("invalid_type", <<"name">>, <<"Required">>, <<>>, <<>>)>>
        avatarIssues ==
          IF data.avatar THEN <<>>
          ELSE <<Issue("invalid_type", <<"avatar">>, <<"Required">>, <<>>, <<>>)>>
        unionIssues == RolesUnionIssues(data.roles)
        aborted == nameIssues /= <<>> \/ avatarIssues /= <<>>
                   \/ unionIssues /= <<>>
        refined ==
          IF ~aborted /\ ~avatarExists
          THEN <<Issue("custom", <<"avatar">>,
                       <<"No avatar file found at ./">> \o AvatarPath(filePath),
                       <<>>, <<>>)>>
          ELSE <<>>
        issues == nameIssues \o avatarIssues \o RolesKeyIssues(data.roles)
                  \o unionIssues \o refined
    IN [success |-> issues = <<>>, issues |-> issues]

\* ------------------------------------------------------- error classifier
InvalidProjectError(projectName, filePath) ==
  <<"Invalid project \"", projectName, "\" for file ./", filePath, ".">>

InvalidRoleError(roleName, projectName, filePath) ==
  <<"Invalid role ", roleName, " in project \"">> \o projectName
  \o <<"\" for file ./", filePath, ".">>

\* unionErrors.flatMap(e => e.issues).find(invalid_enum_value)?.received
ReceivedRole(unionErrors) ==
  LET flat == Flatten(unionErrors)
      hits == {i \in 1..Len(flat) : flat[i].code = "invalid_enum_value"}
  IN IF hits = {} THEN "undefined"
     ELSE flat[CHOOSE i \in hits : \A j \in hits : i <= j].received

\* formatValidationError without its unknown-project case.
formatValidationError_NoProjectCase(error, filePath) ==
  IF error.code = "invalid_union" /\ IncludesRolesDot(Join(error.path))
  THEN [thrown |-> TRUE, name |-> "InvalidRoleError",
        text |-> InvalidRoleError(ReceivedRole(error.unionErrors),
                                  Split(Join(error.path))[2], filePath)]
  ELSE IF Len(error.path) > 0
  THEN [thrown |-> FALSE, name |-> "",
        text |-> Join(error.path) \o <<": ">> \o error.message]
  ELSE [thrown |-> FALSE, name |-> "", text |-> error.message]

\* formatValidationError: thrown tells whether it threw; text is the
\* thrown error's message or the returned string.
formatValidationError(error, filePath) ==
  IF /\ error.code = "unrecognized_keys"
     /\ Len(error.path) = 1
     /\ error.path[1] = "roles"
  THEN [thrown |-> TRUE, name |-> "InvalidProjectError",
        text |-> InvalidProjectError(error.keys[1], filePath)]
  ELSE IF error.code = "invalid_union" /\ IncludesRolesDot(Join(error.path))
  THEN [thrown |-> TRUE, name |-> "InvalidRoleError",
        text |-> InvalidRoleError(ReceivedRole(error.unionErrors),
                                  Split(Join(error.path))[2], filePath)]
  ELSE IF Len(error.path) > 0
  THEN [thrown |-> FALSE, name |-> "",
        text |-> Join(error.path) \o <<": ">> \o error.message]
  ELSE [thrown |-> FALSE, name |-> "", text |-> error.message]

FailedToParse(message) == <<"Failed to parse file: ">> \o message

\* FormatErrors with a catch block that pushes nothing.
FormatErrors_LosesThrown(issues, filePath) ==
  LET fmt == [i \in 1..Len(issues) |-> formatValidationError(issues[i], filePath)]
  IN IF \E i \in 1..Len(issues) : fmt[i].thrown
     THEN <<>>
     ELSE [i \in 1..Len(issues) |-> fmt[i].text]

\* validation.error.errors.map(formatValidationError): the mapped strings,
\* or, when a call throws, the catch block's single message.
FormatErrors(issues, filePath) ==
  LET fmt == [i \in 1..Len(issues) |-> formatValidationError(issues[i], filePath)]
      thrown == {i \in 1..Len(issues) : fmt[i].thrown}
  IN IF thrown = {}
     THEN [i \in 1..Len(issues) |-> fmt[i].text]
     ELSE <<FailedToParse(fmt[CHOOSE i \in thrown : \A j \in thrown : i <= j].text)>>

\* validateTeamFile whose catch block records nothing for a file that
\* cannot be read or parsed.
validateTeamFile_SilentCatch(filePath, data, schemaLoads, avatarExists) ==
  LET result == [file |-> filePath, isValid |-> FALSE, errors |-> <<>>,
                 warnings |-> <<>>]
  IN IF data.kind = "unreadable"
     THEN result
     ELSE IF ~schemaLoads
     THEN [result EXCEPT !.errors = <<FailedToParse(<<"cannot load schema">>)>>]
     ELSE LET validation == SafeParseAsync(data, avatarExists, filePath)
          IN IF validation.success
             THEN [result EXCEPT !.isValid = TRUE]
             ELSE [result EXCEPT
                     !.errors = FormatErrors(validation.issues, filePath)]

\* validateTeamFile past its abort checkpoint: the result for a file whose
\* content parsed to data, given whether the schema module loads and
\* whether the avatar exists when it is looked up.
validateTeamFile(filePath, data, schemaLoads, avatarExists) ==
  LET result == [file |-> filePath, isValid |-> FALSE, errors |-> <<>>,
                 warnings |-> <<>>]
  IN IF data.kind = "unreadable"
     THEN [result EXCEPT !.errors = <<FailedToParse(<<"cannot read or parse">>)>>]
     ELSE IF ~schemaLoads
     THEN [result EXCEPT !.errors = <<FailedToParse(<<"cannot load schema">>)>>]
     ELSE LET validation == SafeParseAsync(data, avatarExists, filePath)
          IN IF validation.success
             THEN [result EXCEPT !.isValid = TRUE]
             ELSE [result EXCEPT
                     !.errors = FormatErrors(validation.issues, filePath)]

\* ===================================================== runner and watcher
\* readdirSync(TEAM_DIR): the schema directory and the record files.
DirEntries == <<"_schema", "a.yaml", "b.yml">>

\* file.endsWith(".yaml") || file.endsWith(".yml")
IsRecordFile(file) ==
  file \in {"a.yaml"} \/ file \in {"b.yml"}

RecordFiles == {f \in Range(DirEntries) : IsRecordFile(f)}

\* Contents a record file may have on disk: a well-formed record, a record
\* with an unknown project under "roles", and a file that cannot be read
\* or is not YAML.
GoodRecord ==
  [kind |-> "object", name |-> TRUE, avatar |-> TRUE,
   roles |-> <<[key |-> "Website", entries |-> <<[kind |-> "str", role |-> "Artist"]>>]>>]

UnknownProjectRecord ==
  [kind |-> "object", name |-> TRUE, avatar |-> TRUE,
   roles |-> <<[key |-> "Foo", entries |-> <<>>]>>]

UnreadableFile ==
  [kind |-> "unreadable", name |-> FALSE, avatar |-> FALSE, roles |-> <<>>]

Contents == {GoodRecord, UnknownProjectRecord, UnreadableFile}

\* An editing session on a record file: a good record gets an unknown
\* project, is then broken altogether, then repaired.
NextEdit(c) ==
  IF c = GoodRecord THEN UnknownProjectRecord
  ELSE IF c = UnknownProjectRecord THEN UnreadableFile
  ELSE GoodRecord

Watchers == {"team", "projects", "schema"}

VARIABLES
  mode,        \* "watch" or "single": whether --watch / -w was given
  proc,        \* the process: state, exit code, what ended it
  currentValidationController,  \* 0 (null) or the pass that owns the token
  started,     \* passes started so far
  pass,        \* per pass: position, cancellation, file checks, results
  out,         \* the console: every line group printed, in order
  dirOk,       \* whether listing the record directory succeeds
  content,     \* per record file: what reading and parsing it gives
  avatar,      \* per record file: whether its avatar exists
  schemaOk,    \* whether the schema module loads (getContributor)
  watchers     \* the filesystem watchers still open

rvars ==
  <<mode, proc, currentValidationController, started, pass, out, dirOk,
    content, avatar, schemaOk, watchers>>

\* State of SpecFile.
VARIABLES
  fData,      \* the record file's parsed content
  fAvatar,    \* whether the avatar file exists on disk
  fRuns       \* the validations made so far: avatar, issues, result

fvars == <<fData, fAvatar, fRuns>>

vars == <<rvars, fvars>>

Passes == 1..MaxPasses

NoResult == [file |-> "", isValid |-> FALSE, errors |-> <<>>, warnings |-> <<>>]

IdlePass ==
  [st |-> "idle", abortedBy |-> 0, abortedAt |-> "", listFailed |-> FALSE,
   checks |-> <<>>, results |-> <<>>, ret |-> "none"]

\* One group of console lines, printed by pass p; late tells whether
\* cancellation had been signalled to p while it slept or validated.
Line(p, kind, valid, total) ==
  [pass |-> p, kind |-> kind, valid |-> valid, total |-> total,
   late |-> pass[p].abortedAt \in {"sleeping", "validating"}]

\* runValidation without the abort of the pass in flight.
AbortCurrent_Skipped(ps, controller, by) == ps

\* currentValidationController?.abort()
AbortCurrent(ps, controller, by) ==
  IF controller = 0 THEN ps
  ELSE [ps EXCEPT ![controller].abortedBy = by,
                  ![controller].abortedAt = ps[controller].st]

\* signal?.throwIfAborted()
ThrowIfAborted(prec) == prec.abortedBy /= 0

\* finally without its test: any pass that finishes clears the token.
ClearController_Always(controller, p) == 0

\* finally: the token is cleared only when it is still this pass's own.
ClearController(controller, p) == IF controller = p THEN 0 ELSE controller

\* An exit that ignores hasErrors.
ExitStatus_AlwaysZero(hasErrors) == 0

\* process.exit(hasErrors ? 1 : 0)
ExitStatus(hasErrors) == IF hasErrors THEN 1 ELSE 0

\* validateAllTeamFiles without its try/catch: a listing failure leaves it.
validateAllTeamFiles_NoCatch(listingOk) ==
  [threw |-> ~listingOk,
   logged |-> FALSE,
   files |-> IF listingOk THEN SelectSeq(DirEntries, IsRecordFile) ELSE <<>>]

\* validateAllTeamFiles up to the calls of validateTeamFile: the files to
\* check, in listing order; a listing failure is caught and logged.
validateAllTeamFiles(listingOk) ==
  [threw |-> FALSE,
   logged |-> ~listingOk,
   files |-> IF listingOk THEN SelectSeq(DirEntries, IsRecordFile) ELSE <<>>]

\* validateTeamFile up to its first await: the file is read and parsed; a
\* failure there settles the check at once.
IssueCheck(file) ==
  IF content[file].kind = "unreadable"
  THEN [file |-> file, stage |-> "done", data |-> content[file],
        sawSchema |-> TRUE, sawAvatar |-> TRUE,
        result |-> validateTeamFile(file, content[file], TRUE, TRUE)]
  ELSE [file |-> file, stage |-> "config", data |-> content[file],
        sawSchema |-> TRUE, sawAvatar |-> TRUE, result |-> NoResult]

AllDone(checks) == \A i \in 1..Len(checks) : checks[i].stage = "done"

\* printResults: results.some(r => r.errors.length > 0)
ReportHasErrors(results) ==
  \E i \in 1..Len(results) : Len(results[i].errors) > 0

\* runValidation: results.some(r => !r.isValid)
HasErrors(results) == \E i \in 1..Len(results) : ~results[i].isValid

ValidCount(results) ==
  Cardinality({i \in 1..Len(results) : results[i].isValid})

\* printResults up to its await: the banner, the error section when there
\* are errors, and the "N/M files valid" line.
PrintResults(p, results) ==
  Line(p, IF ReportHasErrors(results) THEN "report-errors" ELSE "report-ok",
       ValidCount(results), Len(results))

\* A pass ends by throwing: the token is released, and the rejection,
\* which nothing handles, ends the process with status 1.
Throw(p, prec, printed) ==
  /\ pass' = [pass EXCEPT ![p] = [prec EXCEPT !.st = "threw"]]
  /\ out' = printed
  /\ currentValidationController' = ClearController(currentValidationController, p)
  /\ proc' = [state |-> "exited", code |-> 1, cause |-> "rejection"]

\* A pass returns hasErrors; single-pass mode then exits with its status.
Return(p, prec, printed, hasErrors) ==
  /\ pass' = [pass EXCEPT ![p] =
                [prec EXCEPT !.st = "returned",
                             !.ret = IF hasErrors THEN "true" ELSE "false"]]
  /\ out' = printed
  /\ currentValidationController' = ClearController(currentValidationController, p)
  /\ proc' = IF mode = "single"
             THEN [state |-> "exited", code |-> ExitStatus(hasErrors),
                   cause |-> "exit"]
             ELSE proc

\* runValidation collecting the results as the file checks settle, in
\* their order of completion, instead of the order they were issued in.
Advance_CompletionOrder(p, prec, printed) ==
  LET old == pass[p].checks
      idx == [i \in 1..Len(prec.checks) |-> i]
      newly == SelectSeq(idx, LAMBDA i :
                 /\ prec.checks[i].stage = "done"
                 /\ (i > Len(old) \/ old[i].stage /= "done"))
      results == prec.results \o
                 [k \in 1..Len(newly) |-> prec.checks[newly[k]].result]
      done == [prec EXCEPT !.results = results]
      report == Append(printed, PrintResults(p, results))
  IN IF ~AllDone(prec.checks)
     THEN /\ pass' = [pass EXCEPT ![p] = done]
          /\ out' = printed
          /\ UNCHANGED <<currentValidationController, proc>>
     ELSE IF ReportHasErrors(results)
          THEN /\ pass' = [pass EXCEPT ![p] = [done EXCEPT !.st = "tips"]]
               /\ out' = report
               /\ UNCHANGED <<currentValidationController, proc>>
          ELSE Return(p, done,
                      IF mode = "watch"
                      THEN Append(report, Line(p, "waiting", 0, 0))
                      ELSE report,
                      HasErrors(results))

\* runValidation after a file check settled (or none was issued): while a
\* check is pending the pass waits; once all are settled it prints the
\* report, then either awaits the schema for the tips or finishes.
Advance(p, prec, printed) ==
  IF ~AllDone(prec.checks)
  THEN /\ pass' = [pass EXCEPT ![p] = prec]
       /\ out' = printed
       /\ UNCHANGED <<currentValidationController, proc>>
  ELSE LET results == [i \in 1..Len(prec.checks) |-> prec.checks[i].result]
           done == [prec EXCEPT !.results = results]
           report == Append(printed, PrintResults(p, results))
       IN IF ReportHasErrors(results)
          THEN /\ pass' = [pass EXCEPT ![p] = [done EXCEPT !.st = "tips"]]
               /\ out' = report
               /\ UNCHANGED <<currentValidationController, proc>>
          ELSE Return(p, done,
                      IF mode = "watch"
                      THEN Append(report, Line(p, "waiting", 0, 0))
                      ELSE report,
                      HasErrors(results))

Init ==
  /\ mode \in {"watch", "single"}
  /\ proc = [state |-> "running", code |-> 0, cause |-> ""]
  /\ currentValidationController = 1
  /\ started = 1
  /\ pass = [p \in Passes |-> IF p = 1 THEN [IdlePass EXCEPT !.st = "sleeping"]
                              ELSE IdlePass]
  /\ out = <<[pass |-> 1, kind |-> "running", valid |-> 0, total |-> 0,
              late |-> FALSE]>>
  /\ dirOk \in BOOLEAN
  /\ content \in [RecordFiles -> Contents]
  /\ avatar \in [RecordFiles -> BOOLEAN]
  /\ \A f \in RecordFiles : content[f] /= GoodRecord => avatar[f]
  /\ schemaOk \in BOOLEAN
  /\ watchers = IF mode = "watch" THEN Watchers ELSE {}
  /\ fData = UnreadableFile
  /\ fAvatar = FALSE
  /\ fRuns = <<>>

\* runValidation up to its first await, called from a watcher's callback.
RunValidation ==
  LET p == started + 1
      cancelled == AbortCurrent(pass, currentValidationController, p)
  IN /\ started < MaxPasses
     /\ started' = p
     /\ pass' = [cancelled EXCEPT ![p] = [IdlePass EXCEPT !.st = "sleeping"]]
     /\ currentValidationController' = p
     /\ out' = Append(out, [pass |-> p, kind |-> "running", valid |-> 0,
                            total |-> 0, late |-> FALSE])
     /\ UNCHANGED <<mode, proc, dirOk, avatar, watchers, fvars>>

\* The record directory's watcher fires for filename: a record file that
\* was saved (with its next edit, or only touched), or another name.  A
\* pass is requested only for a name with a recognized extension.
TeamDirEvent(filename) ==
  /\ proc.state = "running"
  /\ "team" \in watchers
  /\ IF filename /= "" /\ IsRecordFile(filename)
     THEN /\ RunValidation
          /\ \E c \in {content[filename], NextEdit(content[filename])} :
               content' = [content EXCEPT ![filename] = c]
          /\ UNCHANGED schemaOk
     ELSE UNCHANGED vars

\* The watcher of the project registry fires.
ProjectsEvent ==
  /\ proc.state = "running"
  /\ "projects" \in watchers
  /\ RunValidation
  /\ UNCHANGED <<content, schemaOk>>

\* The watcher of the schema source fires: the source was saved, and
\* loads (loads == TRUE) or no longer does.
SchemaEvent(loads) ==
  /\ proc.state = "running"
  /\ "schema" \in watchers
  /\ RunValidation
  /\ schemaOk' = loads
  /\ UNCHANGED content

\* The pacing delay of pass p ends: the directory is listed and a check is
\* issued for every record file; each check starts at its abort checkpoint.
Wake(p) ==
  /\ proc.state = "running"
  /\ pass[p].st = "sleeping"
  /\ LET listing == validateAllTeamFiles(dirOk)
         printed == IF listing.logged
                    THEN Append(out, Line(p, "direrror", 0, 0))
                    ELSE out
         issued == [pass[p] EXCEPT
                      !.st = "validating",
                      !.listFailed = ~dirOk,
                      !.checks = [i \in 1..Len(listing.files) |->
                                    IssueCheck(listing.files[i])]]
     IN IF listing.threw
        THEN Throw(p, [pass[p] EXCEPT !.listFailed = ~dirOk], printed)
        ELSE IF listing.files /= <<>> /\ ThrowIfAborted(pass[p])
        THEN /\ pass' = [pass EXCEPT ![p].st = "returned", ![p].ret = "false",
                                      ![p].listFailed = ~dirOk]
             /\ out' = printed
             /\ currentValidationController' =
                  ClearController(currentValidationController, p)
             /\ UNCHANGED proc
        ELSE Advance(p, issued, printed)
  /\ UNCHANGED <<mode, started, dirOk, content, avatar, schemaOk, watchers,
                 fvars>>

\* getContributor settles inside check i of pass p.
SchemaLoaded(p, i) ==
  /\ proc.state = "running"
  /\ pass[p].st = "validating"
  /\ i \in 1..Len(pass[p].checks)
  /\ pass[p].checks[i].stage = "config"
  /\ LET c == pass[p].checks[i]
         next == IF schemaOk
                 THEN [c EXCEPT !.stage = "access"]
                 ELSE [c EXCEPT !.stage = "done", !.sawSchema = FALSE,
                                !.result = validateTeamFile(c.file, c.data,
                                                            FALSE, TRUE)]
     IN Advance(p, [pass[p] EXCEPT !.checks[i] = next], out)
  /\ UNCHANGED <<mode, started, dirOk, content, avatar, schemaOk, watchers,
                 fvars>>

\* safeParseAsync, with its avatar lookup, settles inside check i of pass p.
ParseSettled(p, i) ==
  /\ proc.state = "running"
  /\ pass[p].st = "validating"
  /\ i \in 1..Len(pass[p].checks)
  /\ pass[p].checks[i].stage = "access"
  /\ LET c == pass[p].checks[i]
         next == [c EXCEPT !.stage = "done", !.sawAvatar = avatar[c.file],
                           !.result = validateTeamFile(c.file, c.data, TRUE,
                                                       avatar[c.file])]
     IN Advance(p, [pass[p] EXCEPT !.checks[i] = next], out)
  /\ UNCHANGED <<mode, started, dirOk, content, avatar, schemaOk, watchers,
                 fvars>>

\* getContributor settles inside printResults: the tips are printed, or
\* the failure to load the schema leaves printResults and runValidation.
TipsLoaded(p) ==
  /\ proc.state = "running"
  /\ pass[p].st = "tips"
  /\ IF schemaOk
     THEN Return(p, pass[p],
                 IF mode = "watch"
                 THEN out \o <<Line(p, "tips", 0, 0), Line(p, "waiting", 0, 0)>>
                 ELSE Append(out, Line(p, "tips", 0, 0)),
                 HasErrors(pass[p].results))
     ELSE Throw(p, pass[p], out)
  /\ UNCHANGED <<mode, started, dirOk, content, avatar, schemaOk, watchers,
                 fvars>>

\* SIGINT in watch mode: every watcher is closed and the process exits 0;
\* the passes in flight and the token end with the process.
Sigint ==
  /\ proc.state = "running"
  /\ mode = "watch"
  /\ out' = Append(out, [pass |-> 0, kind |-> "bye", valid |-> 0, total |-> 0,
                         late |-> FALSE])
  /\ watchers' = {}
  /\ proc' = [state |-> "exited", code |-> 0, cause |-> "sigint"]
  /\ pass' = [p \in Passes |-> IdlePass]
  /\ currentValidationController' = 0
  /\ UNCHANGED <<mode, started, dirOk, content, avatar, schemaOk, fvars>>

Next ==
  \/ \E filename \in Range(DirEntries) \cup {"", "avatar.png"} :
       TeamDirEvent(filename)
  \/ ProjectsEvent
  \/ \E loads \in BOOLEAN : SchemaEvent(loads)
  \/ \E p \in Passes : Wake(p)
  \/ \E p \in Passes, i \in 1..Len(DirEntries) : SchemaLoaded(p, i)
  \/ \E p \in Passes, i \in 1..Len(DirEntries) : ParseSettled(p, i)
  \/ \E p \in Passes : TipsLoaded(p)
  \/ Sigint

\* The runner and watch controller; the single-file state stays put.
Spec == Init /\ [][Next]_vars

\* ---------------------------------------------------- claims about Spec
Reports == {"report-ok", "report-errors", "tips"}

Settled == {"returned", "threw"}

Active(p) == pass[p].st \in {"sleeping", "validating", "tips"}

\* The lines of the console printed by pass p.
LinesOf(p) == {k \in 1..Len(out) : out[k].pass = p}

\* C1 (as claimed): a pass to which cancellation was signalled while it
\* slept or validated prints no report afterwards, and returns false.
C1_CancelledPassNeverReports ==
  /\ \A k \in 1..Len(out) : out[k].late => out[k].kind \notin Reports
  /\ \A p \in Passes :
       (pass[p].abortedAt \in {"sleeping", "validating"} /\ pass[p].st = "returned")
         => pass[p].ret = "false"

\* C2 (as claimed): when pass q was requested while pass p slept or
\* validated, and q itself was not cancelled, then once both have settled
\* exactly one report is on the console, it is q's, and p printed no part
\* of a report.
C2_OnlySecondPassReports ==
  \A p, q \in Passes :
    ( /\ pass[p].abortedBy = q
      /\ pass[p].abortedAt \in {"sleeping", "validating"}
      /\ pass[q].abortedBy = 0
      /\ pass[p].st \in Settled
      /\ pass[q].st \in Settled )
    => /\ Cardinality({k \in LinesOf(p) \cup LinesOf(q) :
                         out[k].kind \in {"report-ok", "report-errors"}}) = 1
       /\ \A k \in LinesOf(p) : out[k].kind \notin Reports

\* C3 (as claimed): at most one pass is active (started and not returned).
C3_AtMostOneActivePass ==
  Cardinality({p \in Passes : Active(p)}) <= 1

\* C3 (amended): at most one active pass has not been signalled
\* cancellation; every active pass but the newest has been signalled it.
C3_AtMostOneUncancelledPass ==
  /\ Cardinality({p \in Passes : Active(p) /\ pass[p].abortedBy = 0}) <= 1
  /\ \A p \in Passes : (Active(p) /\ p < started) => pass[p].abortedBy /= 0

\* Two passes in flight at once, the older one cancelled.
C3_Witness ==
  \E p, q \in Passes :
    p < q /\ Active(p) /\ Active(q) /\ pass[p].abortedBy = q

\* A record that satisfies the schema, said without the validator: name
\* and avatar present, every key under "roles" a project, every entry a
\* role name or a {role, details} pair, and for a restricted project a
\* role of its list.
WellFormed(data) ==
  /\ data.kind = "object"
  /\ data.name
  /\ data.avatar
  /\ \A i \in 1..Len(data.roles) :
       /\ data.roles[i].key \in Range(PROJECTS)
       /\ \A j \in 1..Len(data.roles[i].entries) :
            LET e == data.roles[i].entries[j]
            IN /\ e.kind \in {"str", "obj"}
               /\ data.roles[i].key = "Volume 0 Issue 1"
                    => e.role \in Range(VOLUME_0_ISSUE_1_ROLES)

\* What went wrong for a file check, if anything.
CheckFailed(c) ==
  \/ ~WellFormed(c.data)
  \/ ~c.sawSchema
  \/ ~c.sawAvatar

\* C4: in a pass that was not cancelled and got as far as its report,
\* every listed file with a recognized extension has exactly one result;
\* a file whose check failed in any way has an invalid result with at
\* least one non-empty error string; and the pass threw, if at all, only
\* after printing its report.
C4_EveryFileGetsOneResult ==
  \A p \in Passes :
    (pass[p].abortedBy = 0 /\ pass[p].st \in {"tips", "returned", "threw"}) =>
      LET results == pass[p].results
      IN /\ ~pass[p].listFailed =>
              \A k \in 1..Len(DirEntries) :
                Cardinality({i \in 1..Len(results) :
                               results[i].file = DirEntries[k]})
                  = IF DirEntries[k] \in {"a.yaml", "b.yml"} THEN 1 ELSE 0
         /\ Len(results) = Len(pass[p].checks)
         /\ \A i \in 1..Len(results) :
              CheckFailed(pass[p].checks[i]) =>
                /\ ~results[i].isValid
                /\ Len(results[i].errors) >= 1
                /\ \A j \in 1..Len(results[i].errors) :
                     results[i].errors[j] /= <<>>
         /\ pass[p].st = "threw" =>
              \E k \in LinesOf(p) : out[k].kind = "report-errors"

\* A pass that was not cancelled returned with its first file's result
\* invalid and its second file's result valid.
C4_Witness ==
  \E p \in Passes :
    /\ pass[p].abortedBy = 0
    /\ pass[p].st = "returned"
    /\ Len(pass[p].results) = 2
    /\ ~pass[p].results[1].isValid
    /\ pass[p].results[2].isValid

\* C5: single-pass mode exits with status 0 exactly when every result of
\* its pass is valid.
C5_ExitStatusIffAllValid ==
  (mode = "single" /\ proc.state = "exited") =>
    (proc.code = 0 <=>
       \A i \in 1..Len(pass[1].results) : pass[1].results[i].isValid)

\* Single-pass mode exited non-zero after printing a report with an
\* invalid file in it.
C5_Witness ==
  /\ mode = "single"
  /\ proc.state = "exited"
  /\ proc.cause = "exit"
  /\ proc.code /= 0
  /\ \E i \in 1..Len(pass[1].results) : ~pass[1].results[i].isValid
  /\ \E i \in 1..Len(pass[1].results) : pass[1].results[i].isValid

\* C6: a pass whose directory listing failed has logged the failure, has
\* an empty result set, has printed "0/0 files valid" under the success
\* banner with no error section and no tips, and has returned no-error;
\* single-pass mode has then exited with status 0.
C6_ListingFailureReportsZero ==
  \A p \in Passes :
    pass[p].listFailed =>
      /\ pass[p].st = "returned"
      /\ pass[p].ret = "false"
      /\ pass[p].results = <<>>
      /\ \E k \in LinesOf(p) : out[k].kind = "direrror"
      /\ \E k \in LinesOf(p) :
           out[k].kind = "report-ok" /\ out[k].valid = 0 /\ out[k].total = 0
      /\ \A k \in LinesOf(p) : out[k].kind \notin {"report-errors", "tips"}
      /\ mode = "single" => (proc.state = "exited" /\ proc.code = 0)

\* Single-pass mode has exited after a pass whose listing failed.
C6_Witness ==
  /\ mode = "single"
  /\ pass[1].listFailed
  /\ proc.state = "exited"

\* C7 (as claimed): in watch mode the process exits only on interrupt,
\* with every watcher closed and status 0.
C7_WatchExitsOnlyOnInterrupt ==
  (mode = "watch" /\ proc.state = "exited") =>
    (proc.cause = "sigint" /\ proc.code = 0 /\ watchers = {})


\* The report lines printed by pass p.
ReportLines(p) ==
  {k \in LinesOf(p) : out[k].kind \in {"report-ok", "report-errors"}}

\* C12: every result a file check returned is valid exactly when its
\* error list is empty; hence, in every pass that printed its report, the
\* report carries the "Found errors" banner (and is followed by the tips,
\* if by anything) exactly when some result is invalid, exactly when the
\* printed valid count is below the file count, and a pass that returns
\* after an uncancelled run returns true exactly in that case.
C12_ValidIffNoErrors ==
  \A p \in Passes :
    /\ \A i \in 1..Len(pass[p].checks) :
         pass[p].checks[i].stage = "done" =>
           (pass[p].checks[i].result.isValid
              <=> pass[p].checks[i].result.errors = <<>>)
    /\ pass[p].st \in {"tips", "returned", "threw"} =>
         \A k \in ReportLines(p) :
           /\ out[k].kind = "report-errors" <=> HasErrors(pass[p].results)
           /\ out[k].kind = "report-errors" <=> out[k].valid < out[k].total
           /\ out[k].total = Len(pass[p].results)
           /\ pass[p].st = "tips" => out[k].kind = "report-errors"
           /\ (\E j \in LinesOf(p) : out[j].kind = "tips")
                => out[k].kind = "report-errors"
           /\ pass[p].st = "returned" =>
                (pass[p].ret = "true" <=> out[k].kind = "report-errors")

\* A pass returned true after a report with the banner and the tips, one
\* of its two results valid with no error and the other invalid with one.
C12_Witness ==
  \E p \in Passes :
    /\ pass[p].st = "returned"
    /\ pass[p].ret = "true"
    /\ \E k \in ReportLines(p) :
         out[k].kind = "report-errors" /\ out[k].valid = 1 /\ out[k].total = 2
    /\ \E j \in LinesOf(p) : out[j].kind = "tips"
    /\ \E i, h \in 1..Len(pass[p].results) :
         /\ pass[p].results[i].isValid
         /\ pass[p].results[i].errors = <<>>
         /\ ~pass[p].results[h].isValid
         /\ Len(pass[p].results[h].errors) = 1


\* C13: the token is set exactly while the most recently started pass has
\* not finished, and it is then that pass's own: a pass that finishes
\* after a newer one has started leaves the newer pass's token in place.
\* Hence cancellation is signalled only to a pass that has not finished,
\* by the pass started next, and every unfinished pass but the newest has
\* been signalled it.
C13_TokenIsNewestUnfinishedPass ==
  /\ currentValidationController = IF Active(started) THEN started ELSE 0
  /\ \A p \in Passes :
       /\ pass[p].abortedBy /= 0 =>
            /\ pass[p].abortedBy = p + 1
            /\ pass[p].abortedAt \in {"sleeping", "validating", "tips"}
       /\ (Active(p) /\ p < started) => pass[p].abortedBy = p + 1

\* A cancelled pass has finished while the pass that cancelled it is
\* still in flight and still holds the token.
C13_Witness ==
  \E p \in Passes :
    /\ p < started
    /\ pass[p].abortedBy = started
    /\ pass[p].st \in Settled
    /\ Active(started)
    /\ currentValidationController = started

\* ============================================ one file, validated alone
FilePath == "a.yaml"

FileInit ==
  /\ fData \in RecordData
  /\ fAvatar = TRUE
  /\ fRuns = <<>>
  /\ mode = "single"
  /\ proc = [state |-> "exited", code |-> 0, cause |-> ""]
  /\ currentValidationController = 0
  /\ started = 0
  /\ pass = [p \in Passes |-> IdlePass]
  /\ out = <<>>
  /\ dirOk = TRUE
  /\ content = [f \in RecordFiles |-> GoodRecord]
  /\ avatar = [f \in RecordFiles |-> TRUE]
  /\ schemaOk = TRUE
  /\ watchers = {}

\* The issues safeParseAsync reports for the file as it is now.
FileIssues ==
  IF fData.kind = "unreadable" THEN <<>>
  ELSE SafeParseAsync(fData, fAvatar, FilePath).issues

\* One call of validateTeamFile on the file (the schema loads), first with
\* the avatar on disk, then again once it is gone; each issue is also
\* handed to formatValidationError on its own.
FileValidate ==
  /\ Len(fRuns) = 0 \/ (Len(fRuns) = 1 /\ fRuns[1].avatar /= fAvatar)
  /\ fRuns' = Append(fRuns,
       [avatar |-> fAvatar,
        issues |-> FileIssues,
        formatted |-> [i \in 1..Len(FileIssues) |->
                         formatValidationError(FileIssues[i], FilePath)],
        result |-> validateTeamFile(FilePath, fData, TRUE, fAvatar)])
  /\ UNCHANGED <<fData, fAvatar, rvars>>

\* The avatar file is removed between the two validations.
FileAvatarChange ==
  /\ Len(fRuns) = 1
  /\ fAvatar' = ~fAvatar
  /\ UNCHANGED <<fData, fRuns, rvars>>

FileNext == FileValidate \/ FileAvatarChange

\* validateTeamFile on one file; the runner's state stays put.
SpecFile == FileInit /\ [][FileNext]_vars

\* ------------------------------------------------ claims about SpecFile
\* The record's keys under "roles" that the registry does not hold.
UnknownKeys == {fData.roles[i].key : i \in 1..Len(fData.roles)} \ Range(PROJECTS)

\* The first of them in the record's key order.
FirstUnknownKey ==
  fData.roles[CHOOSE i \in 1..Len(fData.roles) :
                /\ fData.roles[i].key \notin Range(PROJECTS)
                /\ \A j \in 1..(i - 1) : fData.roles[j].key \in Range(PROJECTS)].key

\* An error string says that project k is invalid.
NamesInvalidProject(e, k) ==
  \E i \in 1..(Len(e) - 1) : e[i] = "Invalid project \"" /\ e[i + 1] = k

\* An error string is the generic message for the path "roles".
GenericRolesMessage(e) == Len(e) >= 2 /\ e[1] = "roles" /\ e[2] = ": "

\* The avatar error: field path "avatar", naming the resolved path.
AvatarError ==
  <<"avatar", ": ", "No avatar file found at ./">> \o AvatarPath(FilePath)

\* s with its first occurrence of x removed.
RECURSIVE RemoveFirst(_, _)
RemoveFirst(s, x) ==
  IF s = <<>> THEN <<>>
  ELSE IF Head(s) = x THEN Tail(s)
  ELSE <<Head(s)>> \o RemoveFirst(Tail(s), x)

\* C8 (as claimed): for a record with an avatar path, validated once with
\* the avatar on disk and once without, the run without it reports exactly
\* the errors of the other run plus one error at "avatar" naming the path.
C8_MissingAvatarAddsOneError ==
  (fData.kind = "object" /\ fData.avatar /\ Len(fRuns) = 2) =>
    LET with == IF fRuns[1].avatar THEN fRuns[1] ELSE fRuns[2]
        without == IF fRuns[1].avatar THEN fRuns[2] ELSE fRuns[1]
    IN (with.avatar /\ ~without.avatar) =>
         /\ Len(without.result.errors) = Len(with.result.errors) + 1
         /\ AvatarError \in Range(without.result.errors)
         /\ RemoveFirst(without.result.errors, AvatarError) = with.result.errors

\* C9 (as claimed): a record with a key under "roles" that is no project is
\* invalid, and its error text names every such key as an invalid project
\* and never gives the generic message for "roles".
C9_EveryUnknownKeyNamed ==
  \A r \in 1..Len(fRuns) :
    (fData.kind = "object" /\ UnknownKeys /= {}) =>
      /\ ~fRuns[r].result.isValid
      /\ \A k \in UnknownKeys :
           \E e \in Range(fRuns[r].result.errors) : NamesInvalidProject(e, k)
      /\ \A e \in Range(fRuns[r].result.errors) : ~GenericRolesMessage(e)

\* C9 (amended): a record with a key under "roles" that is no project is
\* invalid, its error text names the first such key (in the record's key
\* order) as an invalid project, and never gives the generic message.
C9_FirstUnknownKeyNamed ==
  \A r \in 1..Len(fRuns) :
    (fData.kind = "object" /\ UnknownKeys /= {}) =>
      /\ ~fRuns[r].result.isValid
      /\ \E e \in Range(fRuns[r].result.errors) :
           NamesInvalidProject(e, FirstUnknownKey)
      /\ \A e \in Range(fRuns[r].result.errors) : ~GenericRolesMessage(e)

\* A validated record with two unknown keys under "roles".
C9_Witness ==
  /\ Len(fRuns) >= 1
  /\ fData.kind = "object"
  /\ Cardinality(UnknownKeys) >= 2

\* The issue is a union failure at roles.<project>... whose nested
\* failures include an enum mismatch.
RoleEnumMismatch(issue) ==
  /\ issue.code = "invalid_union"
  /\ Len(issue.path) >= 2
  /\ issue.path[1] = "roles"
  /\ \E o \in 1..Len(issue.unionErrors) :
       \E n \in 1..Len(issue.unionErrors[o]) :
         issue.unionErrors[o][n].code = "invalid_enum_value"

\* The issue is an unexpected key directly under "roles".
UnknownProjectShape(issue) ==
  issue.code = "unrecognized_keys" /\ issue.path = <<"roles">>

\* C10 (as claimed): formatValidationError throws the role error exactly
\* for a union failure at roles.<project> with a nested enum mismatch, and
\* returns "<path joined by dots>: <message>", or the bare message for an
\* empty path, for every issue of neither distinguished shape.
C10_RoleErrorIffEnumMismatch ==
  \A r \in 1..Len(fRuns) :
    \A i \in 1..Len(fRuns[r].issues) :
      LET issue == fRuns[r].issues[i]
          got == fRuns[r].formatted[i]
      IN /\ (got.thrown /\ got.name = "InvalidRoleError") <=> RoleEnumMismatch(issue)
         /\ (~RoleEnumMismatch(issue) /\ ~UnknownProjectShape(issue)) =>
              /\ ~got.thrown
              /\ got.text = IF issue.path = <<>> THEN issue.message
                            ELSE Join(issue.path) \o <<": ">> \o issue.message

\* ------------------------------------------- the single pass, run again
\* The single-pass program as started from the command line.
TwiceInit ==
  /\ Init
  /\ mode = "single"

\* The program has exited and is started once more over the directory as
\* it was left: a fresh process, whose first statement is runValidation().
Rerun ==
  LET p == started + 1
  IN /\ mode = "single"
     /\ proc.state = "exited"
     /\ started < MaxPasses
     /\ started' = p
     /\ proc' = [state |-> "running", code |-> 0, cause |-> ""]
     /\ pass' = [pass EXCEPT ![p] = [IdlePass EXCEPT !.st = "sleeping"]]
     /\ currentValidationController' = p
     /\ out' = Append(out, [pass |-> p, kind |-> "running", valid |-> 0,
                            total |-> 0, late |-> FALSE])
     /\ UNCHANGED <<mode, dirOk, content, avatar, schemaOk, watchers, fvars>>

TwiceNext ==
  \/ \E p \in Passes : Wake(p)
  \/ \E p \in Passes, i \in 1..Len(DirEntries) : SchemaLoaded(p, i)
  \/ \E p \in Passes, i \in 1..Len(DirEntries) : ParseSettled(p, i)
  \/ \E p \in Passes : TipsLoaded(p)
  \/ Rerun

\* Single-pass runs, one after the other, over an unchanged directory.
SpecTwice == TwiceInit /\ [][TwiceNext]_vars

\* ----------------------------------------------- claims about SpecTwice
\* The report a pass printed: kind, valid count and file count.
ReportOf(p) ==
  {<<out[k].kind, out[k].valid, out[k].total>> :
     k \in {j \in LinesOf(p) : out[j].kind \in Reports}}

\* C11: two single-pass runs over an unchanged directory that have both
\* ended have identical result lists (the same files in the same order,
\* the same validity, the same error strings), the order being that of the
\* directory listing whatever the order in which the file checks settled,
\* and they end in the same way with the same report.
C11_RerunYieldsSameResults ==
  \A p, q \in Passes :
    (pass[p].st \in Settled /\ pass[q].st \in Settled) =>
      /\ pass[p].results = pass[q].results
      /\ pass[p].st = pass[q].st
      /\ pass[p].ret = pass[q].ret
      /\ ReportOf(p) = ReportOf(q)
      /\ LET listed == IF dirOk THEN SelectSeq(DirEntries, IsRecordFile)
                       ELSE <<>>
         IN /\ Len(pass[p].results) = Len(listed)
            /\ \A i \in 1..Len(listed) : pass[p].results[i].file = listed[i]

\* Two runs have ended, each with the results of two files whose checks
\* awaited the schema and the avatar lookup (so that either could settle
\* first), one file valid and the other not.
C11_Witness ==
  \E p, q \in Passes :
    /\ p < q
    /\ pass[p].st \in Settled
    /\ pass[q].st \in Settled
    /\ Len(pass[q].results) = 2
    /\ pass[q].results[1].isValid
    /\ ~pass[q].results[2].isValid
    /\ \A i \in 1..2 : pass[q].checks[i].data.kind = "object"

====
